---- MODULE Spec2Model ----
(***************************************************************************)
(* libcvd-cl: descriptor-generation steps (HipsGrayStep, HipsRichStep),    *)
(* the expectation helpers (Expect.hh) and the pose-estimation driver      *)
(* (test-pose.cc: testPipeline and main).                                  *)
(*                                                                         *)
(* StepSpec drives the two descriptor steps through their public           *)
(* interface against one point list and one in-order command queue.        *)
(* PipeSpec is main(): device discovery, the per-device loop and           *)
(* testPipeline, statement by statement.                                   *)
(* ExpectSpec is a caller of expect() and cutry().                         *)
(***************************************************************************)
EXTENDS Integers, Sequences, FiniteSets, TLC

(* ------------------------------------------------------------------ *)
(* Bounds of the model.                                                *)
(* ------------------------------------------------------------------ *)

\* Largest point-list capacity (and so the largest point count) explored.
MaxPoints == 130

\* Number of kernels one run of StepSpec may enqueue.
MaxExec == 3

\* Number of execute()/measure() calls one run of MeasureSpec makes.
MaxOps == 2

\* Largest number of OpenCL devices discovery may return.
MaxDevices == 2

\* Largest number of scores read back from hypo_scores.
MaxHypos == 3

\* Scores range over -1..MaxScore.
MaxScore == 2

\* Number of expect()/cutry() calls one run of ExpectSpec makes.
MaxChecks == 4

(* ------------------------------------------------------------------ *)
(* Program constants.                                                  *)
(* ------------------------------------------------------------------ *)

\* Work-group (tile) size of the hips_gray kernel: ((np / 64) * 64) and
\* cl::NDRange(64).
TileSize == 64

\* for (int i = 0; i < 10; i++): refinement iterations of testPipeline.
RefineIterations == 10

(* ------------------------------------------------------------------ *)
(* State of the step harness.                                          *)
(* ------------------------------------------------------------------ *)

VARIABLES
    cap,        \* buffer -> capacity fixed at allocation
    count,      \* buffer -> valid count
    queue,      \* the worker's command queue: kernels enqueued, not yet started
    running,    \* the kernel the device is executing, or NoKernel
    completed,  \* sequence numbers of the kernels the device has finished, in order
    nenq,       \* number of kernels enqueued so far
    last        \* the most recent execute(): step, np read, count set, stale count, enqueue outcome

stepVars == <<cap, count, queue, running, completed, nenq, last>>

(* ------------------------------------------------------------------ *)
(* State of main() and testPipeline().                                 *)
(* ------------------------------------------------------------------ *)

VARIABLES
    mainState,  \* "start", "loop", "pipeline", "returned" or "terminated"
    ndev,       \* devices.size()
    id,         \* index of the per-device loop (0-based)
    outcomes,   \* how testPipeline ended for each device run so far
    ran,        \* the device indices testPipeline was called with, in call order
    pc,         \* index into Prog of the next statement of testPipeline
    i,          \* index of the refinement loop
    frame,      \* number of images written to the device so far
    stamp,      \* buffer-state -> frame in which it was last written, 0 if never
    hypo,       \* contents of hypo_m, hypo_a, hypo_b, hypo_x, hypo_cam
    scores,     \* hyposcores, the score list read back to the host
    ibest,      \* index selected by the host
    hypo_best,  \* count of the hypo_best CountState
    calls,      \* step -> number of measure() calls
    execs,      \* step -> number of execute() calls (kernels enqueued)
    iterTrace   \* steps measured so far in the current refinement iteration

pipeVars == <<mainState, ndev, id, outcomes, ran, pc, i, frame, stamp, hypo, scores,
              ibest, hypo_best, calls, execs, iterTrace>>

(* ------------------------------------------------------------------ *)
(* State of the measure()/execute() comparison.                        *)
(* ------------------------------------------------------------------ *)

VARIABLES
    mbuf,       \* the buffer-states: counts of i_points, o_hips, ohips; hypo_cam, hypo_m
    mpre,       \* the buffer-states before the most recent call
    mop,        \* the most recent call: execute or measure, its step and repeat count
    mops        \* number of calls made

measVars == <<mbuf, mpre, mop, mops>>

(* ------------------------------------------------------------------ *)
(* State of the caller of expect() and cutry().                        *)
(* ------------------------------------------------------------------ *)

VARIABLES
    elog,       \* the calls of expect()/cutry() made so far: function, argument, outcome
    ethrown     \* the exception propagating out of the last call, or "none"

expVars == <<elog, ethrown>>

vars == <<stepVars, pipeVars, measVars, expVars>>

\* Buffer-states bound to the two steps: one point list feeding both steps,
\* and one descriptor list per step.
Buffers == {"i_points", "o_hips", "ohips"}

Steps == {"HipsGrayStep", "HipsRichStep"}

NoKernel == [step |-> "none", seq |-> 0]

NoExec == [step |-> "none", np |-> 0, set |-> 0, stale |-> 0, gsize |-> -1]

\* The buffer-states of the measure()/execute() comparison after allocation.
MeasIdle == [i_points |-> 0, o_hips |-> 0, ohips |-> 0, cam |-> 1, m |-> <<>>]

NoOp == [kind |-> "none", step |-> "none", repeat |-> 0]

\* Capacities a buffer may be allocated with.
Caps == {TileSize, MaxPoints}

\* Point counts an upstream producer may leave in the point list: the values
\* around every tile boundary.
PointChoices == {n \in 0..MaxPoints : n % TileSize \in {0, 1, TileSize - 1}}

(* ------------------------------------------------------------------ *)
(* Buffer-state accessors.                                             *)
(* ------------------------------------------------------------------ *)

\* CountState::getCount(): the valid count of a buffer-state.
getCount(b) == count[b]

\* CountState::setCount(n): overwrite the valid count of a buffer-state.
setCount(b, n) == [count EXCEPT ![b] = n]

(* ------------------------------------------------------------------ *)
(* HipsGrayStep.                                                       *)
(* ------------------------------------------------------------------ *)

\* A tile count rounded to the nearest whole tile instead of down.
np_64_Nearest(np) == ((np + TileSize \div 2) \div TileSize) * TileSize

np_64_RoundUp(np) == (((np + (TileSize - 1)) \div TileSize) * TileSize)

\* Round down number of input points.
np_64(np) == ((np \div TileSize) * TileSize)

EnqueueFront(q, k) == <<k>> \o q

\* cl::CommandQueue::enqueueNDRangeKernel on the worker's queue.
Enqueue(q, k) == Append(q, k)

\* A HipsGrayStep::execute() that also truncates the input point list to
\* the whole tiles it has described.
HipsGrayStep_execute_TruncateInput ==
    /\ UNCHANGED <<pipeVars, measVars, expVars>>
    /\ nenq < MaxExec
    /\ LET np    == getCount("i_points")
           n64   == np_64(np)
       IN  /\ count' = [count EXCEPT !["o_hips"] = n64, !["i_points"] = n64]
           /\ \E ok \in BOOLEAN :
                 IF ok
                 THEN /\ queue' = Enqueue(queue, [step |-> "HipsGrayStep", seq |-> nenq + 1])
                      /\ nenq' = nenq + 1
                      /\ last' = [step |-> "HipsGrayStep", np |-> np, set |-> n64,
                                  stale |-> count["o_hips"], gsize |-> n64]
                 ELSE /\ UNCHANGED <<queue, nenq>>
                      /\ last' = [step |-> "HipsGrayStep", np |-> np, set |-> n64,
                                  stale |-> count["o_hips"], gsize |-> -1]
    /\ UNCHANGED <<cap, running, completed>>

\* HipsGrayStep::execute(): read the input count, round it down, reset the
\* output count, then enqueue the kernel; the enqueue may throw cl::Error,
\* in which case the count has already been reset.
HipsGrayStep_execute ==
    /\ UNCHANGED <<pipeVars, measVars, expVars>>
    /\ nenq < MaxExec
    /\ LET np    == getCount("i_points")
           n64   == np_64(np)
       IN  /\ count' = setCount("o_hips", n64)
           /\ \E ok \in BOOLEAN :
                 IF ok
                 THEN /\ queue' = Enqueue(queue, [step |-> "HipsGrayStep", seq |-> nenq + 1])
                      /\ nenq' = nenq + 1
                      /\ last' = [step |-> "HipsGrayStep", np |-> np, set |-> n64,
                                  stale |-> count["o_hips"], gsize |-> n64]
                 ELSE /\ UNCHANGED <<queue, nenq>>
                      /\ last' = [step |-> "HipsGrayStep", np |-> np, set |-> n64,
                                  stale |-> count["o_hips"], gsize |-> -1]
    /\ UNCHANGED <<cap, running, completed>>

(* ------------------------------------------------------------------ *)
(* HipsRichStep.                                                       *)
(* ------------------------------------------------------------------ *)

\* A HipsRichStep::execute() that appends to the output list instead of
\* resetting its count.
HipsRichStep_execute_Append ==
    /\ UNCHANGED <<pipeVars, measVars, expVars>>
    /\ nenq < MaxExec
    /\ LET np == getCount("i_points")
       IN  /\ count' = setCount("ohips", count["ohips"] + np)
           /\ \E ok \in BOOLEAN :
                 IF ok
                 THEN /\ queue' = Enqueue(queue, [step |-> "HipsRichStep", seq |-> nenq + 1])
                      /\ nenq' = nenq + 1
                      /\ last' = [step |-> "HipsRichStep", np |-> np, set |-> np,
                                  stale |-> count["ohips"], gsize |-> np]
                 ELSE /\ UNCHANGED <<queue, nenq>>
                      /\ last' = [step |-> "HipsRichStep", np |-> np, set |-> np,
                                  stale |-> count["ohips"], gsize |-> -1]
    /\ UNCHANGED <<cap, running, completed>>

\* A HipsRichStep::execute() that rounds the count and the global size down
\* to whole tiles, as HipsGrayStep does.
HipsRichStep_execute_Rounded ==
    /\ UNCHANGED <<pipeVars, measVars, expVars>>
    /\ nenq < MaxExec
    /\ LET np == getCount("i_points")
       IN  /\ count' = setCount("ohips", np_64(np))
           /\ \E ok \in BOOLEAN :
                 IF ok
                 THEN /\ queue' = Enqueue(queue, [step |-> "HipsRichStep", seq |-> nenq + 1])
                      /\ nenq' = nenq + 1
                      /\ last' = [step |-> "HipsRichStep", np |-> np, set |-> np_64(np),
                                  stale |-> count["ohips"], gsize |-> np_64(np)]
                 ELSE /\ UNCHANGED <<queue, nenq>>
                      /\ last' = [step |-> "HipsRichStep", np |-> np, set |-> np_64(np),
                                  stale |-> count["ohips"], gsize |-> -1]
    /\ UNCHANGED <<cap, running, completed>>

\* HipsRichStep::execute(): read the input count, reset the output count to
\* it, then enqueue the kernel with global size np.
HipsRichStep_execute ==
    /\ UNCHANGED <<pipeVars, measVars, expVars>>
    /\ nenq < MaxExec
    /\ LET np == getCount("i_points")
       IN  /\ count' = setCount("ohips", np)
           /\ \E ok \in BOOLEAN :
                 IF ok
                 THEN /\ queue' = Enqueue(queue, [step |-> "HipsRichStep", seq |-> nenq + 1])
                      /\ nenq' = nenq + 1
                      /\ last' = [step |-> "HipsRichStep", np |-> np, set |-> np,
                                  stale |-> count["ohips"], gsize |-> np]
                 ELSE /\ UNCHANGED <<queue, nenq>>
                      /\ last' = [step |-> "HipsRichStep", np |-> np, set |-> np,
                                  stale |-> count["ohips"], gsize |-> -1]
    /\ UNCHANGED <<cap, running, completed>>

(* ------------------------------------------------------------------ *)
(* Environment of the steps: the upstream producer and the device.     *)
(* ------------------------------------------------------------------ *)

\* An upstream producing step (corner detection) overwrites the count of
\* the point list with the number of points it wrote, within its capacity.
ProducePoints ==
    /\ UNCHANGED <<pipeVars, measVars, expVars>>
    /\ \E n \in PointChoices :
          /\ n <= cap["i_points"]
          /\ n # count["i_points"]
          /\ count' = setCount("i_points", n)
    /\ UNCHANGED <<cap, queue, running, completed, nenq, last>>

\* The device takes the kernel at the head of the in-order queue.
DeviceStart ==
    /\ UNCHANGED <<pipeVars, measVars, expVars>>
    /\ running = NoKernel
    /\ queue # <<>>
    /\ running' = Head(queue)
    /\ queue' = Tail(queue)
    /\ UNCHANGED <<cap, count, completed, nenq, last>>

\* The running kernel completes.
DeviceFinish ==
    /\ UNCHANGED <<pipeVars, measVars, expVars>>
    /\ running # NoKernel
    /\ completed' = Append(completed, running.seq)
    /\ running' = NoKernel
    /\ UNCHANGED <<cap, count, queue, nenq, last>>

StepNext ==
    \/ ProducePoints
    \/ HipsGrayStep_execute
    \/ HipsRichStep_execute
    \/ DeviceStart
    \/ DeviceFinish

(* ------------------------------------------------------------------ *)
(* Expect.hh and the exceptions main() sees.                           *)
(* ------------------------------------------------------------------ *)

\* cudaError_t values: cudaSuccess and one failure code.
cudaSuccess == "cudaSuccess"

CudaErrors == {cudaSuccess, "cudaErrorUnknown"}

\* expect() with the test inverted: throws when state == true.
expect_Inverted(state) == IF state = TRUE THEN "ExpectationError" ELSE "ok"

\* expect(message, state): throws ExpectationError when state == false.
expect(state) == IF state = FALSE THEN "ExpectationError" ELSE "ok"

\* cutry(error): throws ExpectationError when error != cudaSuccess.
cutry(error) == IF error # cudaSuccess THEN "ExpectationError" ELSE "ok"

main_catch_All(exc) == TRUE

\* catch (cl::Error & err) around testPipeline(dev, input): the handler
\* matches cl::Error only; ExpectationError derives from
\* std::invalid_argument and is matched by no handler of main().
main_catch(exc) == exc = "cl::Error"

(* ------------------------------------------------------------------ *)
(* testPipeline: buffer-states, steps and their bindings.              *)
(* ------------------------------------------------------------------ *)

PBuffers == {"imageNeat", "corners1", "corners2", "corners3", "im1corners", "im1hips",
             "im1depth", "im2corners", "im2hips", "camera", "im1tree", "matches",
             "uvquv", "uvquv_mix", "hypo_m", "hypo_a", "hypo_b", "hypo_x", "hypo_cam",
             "hypo_scores", "hypo_best", "test_uvs"}

\* Buffer-states rewritten for every image: the image itself, the camera
\* (depth) map and the two scratch point lists shared by both chains.
PerFrame == {"imageNeat", "camera", "corners1", "corners2"}

PSteps == {"runPreFast1", "runClip1", "runFast1", "runHips1", "runHipsClip1",
           "runPreFast2", "runClip2", "runFast2", "runHips2", "runHipsClip2",
           "runTree1", "runMatch", "runToUvqUv", "runMix", "runIdent", "runWls",
           "runCholesky", "runSe3Exp", "runMul", "runSe3Score", "runSe3One"}

\* Input buffer-states of each step, as bound by its constructor call.
StepIn(s) ==
    CASE s = "runPreFast1"  -> {"imageNeat"}
      [] s = "runClip1"     -> {"camera", "corners1"}
      [] s = "runFast1"     -> {"imageNeat", "corners2"}
      [] s = "runHips1"     -> {"imageNeat", "im1corners"}
      [] s = "runHipsClip1" -> {"im1hips"}
      [] s = "runPreFast2"  -> {"imageNeat"}
      [] s = "runClip2"     -> {"camera", "corners1"}
      [] s = "runFast2"     -> {"imageNeat", "corners2"}
      [] s = "runHips2"     -> {"imageNeat", "im2corners"}
      [] s = "runHipsClip2" -> {"im2hips"}
      [] s = "runTree1"     -> {"im1hips"}
      [] s = "runMatch"     -> {"im1tree", "im2hips"}
      [] s = "runToUvqUv"   -> {"camera", "im1corners", "im2corners", "matches"}
      [] s = "runMix"       -> {"uvquv"}
      [] s = "runIdent"     -> {}
      [] s = "runWls"       -> {"uvquv_mix", "hypo_m"}
      [] s = "runCholesky"  -> {"hypo_a", "hypo_b"}
      [] s = "runSe3Exp"    -> {"hypo_x"}
      [] s = "runMul"       -> {"hypo_cam", "hypo_m"}
      [] s = "runSe3Score"  -> {"uvquv", "hypo_cam"}
      [] s = "runSe3One"    -> {"uvquv", "hypo_cam", "hypo_best"}

\* Output buffer-states of each step, as bound by its constructor call.
StepOut(s) ==
    CASE s = "runPreFast1"  -> {"corners1"}
      [] s = "runClip1"     -> {"corners2"}
      [] s = "runFast1"     -> {"im1corners"}
      [] s = "runHips1"     -> {"im1hips"}
      [] s = "runHipsClip1" -> {"im1hips"}
      [] s = "runPreFast2"  -> {"corners1"}
      [] s = "runClip2"     -> {"corners2"}
      [] s = "runFast2"     -> {"im2corners"}
      [] s = "runHips2"     -> {"im2hips"}
      [] s = "runHipsClip2" -> {"im2hips"}
      [] s = "runTree1"     -> {"im1tree"}
      [] s = "runMatch"     -> {"matches"}
      [] s = "runToUvqUv"   -> {"uvquv"}
      [] s = "runMix"       -> {"uvquv_mix"}
      [] s = "runIdent"     -> {"hypo_m"}
      [] s = "runWls"       -> {"hypo_a", "hypo_b"}
      [] s = "runCholesky"  -> {"hypo_x"}
      [] s = "runSe3Exp"    -> {"hypo_cam"}
      [] s = "runMul"       -> {"hypo_m"}
      [] s = "runSe3Score"  -> {"hypo_scores"}
      [] s = "runSe3One"    -> {"test_uvs"}

\* measure() called without an argument repeats execute() this many times.
DefaultRepeat == 10

\* A statement runX.measure() (repeat 0 stands for the default argument)
\* or runX.measure(n).
M(s) == [op |-> "measure", step |-> s, repeat |-> 0]

Mn(s, n) == [op |-> "measure", step |-> s, repeat |-> n]

St(o) == [op |-> o, step |-> "none", repeat |-> 0]

\* testPipeline with the depth filter of image 2 run before its culling step.
ProgClipBeforeCull ==
    << St("construct"),
       St("write"),
       M("runPreFast1"), M("runClip1"), M("runFast1"), M("runHips1"), M("runHipsClip1"),
       St("write"),
       M("runClip2"), M("runPreFast2"), M("runFast2"), M("runHips2"), M("runHipsClip2"),
       St("finish"),
       M("runTree1"), M("runMatch"), M("runToUvqUv"), M("runMix"), M("runIdent"),
       St("loop"),
       M("runWls"), M("runCholesky"), M("runSe3Exp"), Mn("runMul", 1),
       St("endloop"),
       M("runSe3Score"),
       St("read"),
       St("select"),
       M("runSe3One"),
       St("display") >>

\* testPipeline with the compose step measured with the default repeat count.
ProgComposeRepeated ==
    << St("construct"),
       St("write"),
       M("runPreFast1"), M("runClip1"), M("runFast1"), M("runHips1"), M("runHipsClip1"),
       St("write"),
       M("runPreFast2"), M("runClip2"), M("runFast2"), M("runHips2"), M("runHipsClip2"),
       St("finish"),
       M("runTree1"), M("runMatch"), M("runToUvqUv"), M("runMix"), M("runIdent"),
       St("loop"),
       M("runWls"), M("runCholesky"), M("runSe3Exp"), M("runMul"),
       St("endloop"),
       M("runSe3Score"),
       St("read"),
       St("select"),
       M("runSe3One"),
       St("display") >>

\* testPipeline with the single-hypothesis step run before the scores are
\* read back and the best index is assigned.
ProgRun1BeforeSelect ==
    << St("construct"),
       St("write"),
       M("runPreFast1"), M("runClip1"), M("runFast1"), M("runHips1"), M("runHipsClip1"),
       St("write"),
       M("runPreFast2"), M("runClip2"), M("runFast2"), M("runHips2"), M("runHipsClip2"),
       St("finish"),
       M("runTree1"), M("runMatch"), M("runToUvqUv"), M("runMix"), M("runIdent"),
       St("loop"),
       M("runWls"), M("runCholesky"), M("runSe3Exp"), Mn("runMul", 1),
       St("endloop"),
       M("runSe3Score"),
       M("runSe3One"),
       St("read"),
       St("select"),
       St("display") >>

\* The statements of testPipeline in program order.
Prog ==
    << St("construct"),
       St("write"),
       M("runPreFast1"), M("runClip1"), M("runFast1"), M("runHips1"), M("runHipsClip1"),
       St("write"),
       M("runPreFast2"), M("runClip2"), M("runFast2"), M("runHips2"), M("runHipsClip2"),
       St("finish"),
       M("runTree1"), M("runMatch"), M("runToUvqUv"), M("runMix"), M("runIdent"),
       St("loop"),
       M("runWls"), M("runCholesky"), M("runSe3Exp"), Mn("runMul", 1),
       St("endloop"),
       M("runSe3Score"),
       St("read"),
       St("select"),
       M("runSe3One"),
       St("display") >>

\* Position of the loop head, and of the first statement after the loop.
LoopHead == CHOOSE k \in 1..Len(Prog) : Prog[k].op = "loop"

LoopExit == 1 + CHOOSE k \in 1..Len(Prog) : Prog[k].op = "endloop"

InLoop(k) == LoopHead < k /\ k < LoopExit

\* Positions of runIdent.measure() and of the selection block.
IdentPos == CHOOSE k \in 1..Len(Prog) : Prog[k].step = "runIdent"

SelectPos == CHOOSE k \in 1..Len(Prog) : Prog[k].op = "select"

\* Positions of hypo_scores.get(&hyposcores) and of runSe3One.measure().
ReadPos == CHOOSE k \in 1..Len(Prog) : Prog[k].op = "read"

Run1Pos == CHOOSE k \in 1..Len(Prog) : Prog[k].step = "runSe3One"

\* The statement testPipeline is about to execute.
Stmt == Prog[pc]

At(o) == mainState = "pipeline" /\ Stmt.op = o

(* ------------------------------------------------------------------ *)
(* Effects of the pose-solve steps on the hypothesis matrices.         *)
(* A pose is the sequence of increments composed onto the identity,    *)
(* newest first.                                                       *)
(* ------------------------------------------------------------------ *)

HypoInit == [m |-> <<>>, a |-> 0, b |-> 0, x |-> 0, cam |-> 0]

\* One execute() of step s on the hypothesis matrices h.
ExecEffect(s, h) ==
    CASE s = "runIdent"    -> [h EXCEPT !.m = <<>>]
      [] s = "runWls"      -> [h EXCEPT !.a = Len(h.m), !.b = Len(h.m)]
      [] s = "runCholesky" -> [h EXCEPT !.x = h.a]
      [] s = "runSe3Exp"   -> [h EXCEPT !.cam = h.x + 1]
      [] s = "runMul"      -> [h EXCEPT !.m = <<h.cam>> \o h.m]
      [] OTHER             -> h

RECURSIVE Repeated(_, _, _)
\* repeat consecutive execute() calls of step s.
Repeated(s, h, repeat) ==
    IF repeat = 0 THEN h ELSE Repeated(s, ExecEffect(s, h), repeat - 1)

RepeatOf(st) == IF st.repeat = 0 THEN DefaultRepeat ELSE st.repeat

(* ------------------------------------------------------------------ *)
(* Host-side selection of the best hypothesis.                         *)
(* ------------------------------------------------------------------ *)

ScoreValues == (0 - 1)..MaxScore

ScoreLists == UNION {[1..n -> ScoreValues] : n \in 0..MaxHypos}

RECURSIVE SelectLoop(_, _, _, _)
\* for (i = 0; i < hyposcores.size(); i++) if (score > best) { best = score;
\* ibest = i; } -- k is the 1-based position of element i = k - 1.
SelectLoop(sc, k, best, ib) ==
    IF k > Len(sc) THEN ib
    ELSE IF sc[k] > best THEN SelectLoop(sc, k + 1, sc[k], k - 1)
                         ELSE SelectLoop(sc, k + 1, best, ib)

\* best = 0; ibest = 0; then the loop.
SelectBest(sc) == SelectLoop(sc, 1, 0, 0)

(* ------------------------------------------------------------------ *)
(* main().                                                             *)
(* ------------------------------------------------------------------ *)

\* Device discovery; cl::Platform::get may throw cl::Error, which the
\* outer handler logs before main returns 0.
main_Discover ==
    /\ UNCHANGED <<stepVars, measVars, expVars>>
    /\ mainState = "start"
    /\ \/ /\ \E n \in 0..MaxDevices : ndev' = n
          /\ mainState' = "loop"
       \/ /\ mainState' = "returned"
          /\ UNCHANGED ndev
    /\ UNCHANGED <<ran, id, outcomes, pc, i, frame, stamp, hypo, scores, ibest, hypo_best,
                   calls, execs, iterTrace>>

\* for (id = 0; id < devices.size(); id++) { try { testPipeline(dev, input);
main_RunDevice ==
    /\ UNCHANGED <<stepVars, measVars, expVars>>
    /\ mainState = "loop"
    /\ id < ndev
    /\ mainState' = "pipeline"
    /\ ran' = Append(ran, id)
    /\ pc' = 1
    /\ UNCHANGED <<ndev, id, outcomes, i, frame, stamp, hypo, scores, ibest, hypo_best,
                   calls, execs, iterTrace>>

\* dev.getInfo<CL_DEVICE_NAME>() of the "Running pipeline for" line fails:
\* it stands outside the per-device try block, so the cl::Error is taken by
\* the outer handler of main, which logs it and returns 0.
main_DeviceInfoFails ==
    /\ UNCHANGED <<stepVars, measVars, expVars>>
    /\ mainState = "loop"
    /\ id < ndev
    /\ main_catch("cl::Error")
    /\ mainState' = "returned"
    /\ UNCHANGED <<ndev, ran, id, outcomes, pc, i, frame, stamp, hypo, scores, ibest,
                   hypo_best, calls, execs, iterTrace>>

\* The loop is over: return 0.
main_Return ==
    /\ UNCHANGED <<stepVars, measVars, expVars>>
    /\ mainState = "loop"
    /\ id >= ndev
    /\ mainState' = "returned"
    /\ UNCHANGED <<ndev, ran, id, outcomes, pc, i, frame, stamp, hypo, scores, ibest,
                   hypo_best, calls, execs, iterTrace>>

\* An exception exc leaves testPipeline: the handler of the per-device loop
\* takes it and the loop goes on, or no handler matches and the exception
\* leaves main (std::terminate).
Unwind(exc) ==
    /\ outcomes' = Append(outcomes, exc)
    /\ IF main_catch(exc)
       THEN /\ mainState' = "loop"
            /\ id' = id + 1
       ELSE /\ mainState' = "terminated"
            /\ UNCHANGED id
    /\ UNCHANGED <<ndev, ran, pc, i, frame, stamp, hypo, scores, ibest, hypo_best,
                   calls, execs, iterTrace>>

\* A backend call of the current statement fails: cl::Error.
ThrowClError ==
    /\ UNCHANGED <<stepVars, measVars, expVars>>
    /\ mainState = "pipeline"
    /\ Stmt.op \in {"construct", "write", "measure", "finish", "read", "select", "display"}
    /\ Unwind("cl::Error")

\* A precondition checked by the current statement fails: expect() or
\* cutry() throws ExpectationError.
ThrowExpectationError ==
    /\ UNCHANGED <<stepVars, measVars, expVars>>
    /\ mainState = "pipeline"
    /\ Stmt.op \in {"construct", "write", "measure", "read", "select", "display"}
    /\ \E state \in BOOLEAN, error \in CudaErrors :
          /\ (expect(state) # "ok" \/ cutry(error) # "ok")
          /\ Unwind(expect(state /\ error = cudaSuccess))

(* ------------------------------------------------------------------ *)
(* testPipeline(), one action per kind of statement.                   *)
(* ------------------------------------------------------------------ *)

\* Worker, states and steps are constructed: every count is 0, nothing has
\* been written.
Construct ==
    /\ UNCHANGED <<stepVars, measVars, expVars>>
    /\ At("construct")
    /\ pc' = pc + 1
    /\ i' = 0
    /\ frame' = 0
    /\ stamp' = [b \in PBuffers |-> 0]
    /\ hypo' = HypoInit
    /\ scores' = <<>>
    /\ ibest' = 0
    /\ hypo_best' = 0
    /\ calls' = [s \in PSteps |-> 0]
    /\ execs' = [s \in PSteps |-> 0]
    /\ iterTrace' = <<>>
    /\ UNCHANGED <<mainState, ndev, ran, id, outcomes>>

\* setImage(imageNeat, ...); camera.qdata = ...; camera.copyToWorker();
\* worker.finish();
HostWriteImage ==
    /\ UNCHANGED <<stepVars, measVars, expVars>>
    /\ At("write")
    /\ pc' = pc + 1
    /\ frame' = frame + 1
    /\ stamp' = [stamp EXCEPT !["imageNeat"] = frame + 1, !["camera"] = frame + 1]
    /\ UNCHANGED <<mainState, ndev, ran, id, outcomes, i, hypo, scores, ibest, hypo_best,
                   calls, execs, iterTrace>>

\* runX.measure(repeat): finish, repeat execute() calls, finish.
Measure ==
    /\ UNCHANGED <<stepVars, measVars, expVars>>
    /\ At("measure")
    /\ LET s == Stmt.step
           r == RepeatOf(Stmt)
       IN  /\ calls' = [calls EXCEPT ![s] = @ + 1]
           /\ execs' = [execs EXCEPT ![s] = @ + r]
           /\ hypo' = Repeated(s, hypo, r)
           /\ stamp' = [b \in PBuffers |-> IF b \in StepOut(s) THEN frame ELSE stamp[b]]
           /\ iterTrace' = IF InLoop(pc) THEN Append(iterTrace, s) ELSE iterTrace
    /\ pc' = pc + 1
    /\ UNCHANGED <<mainState, ndev, ran, id, outcomes, i, frame, scores, ibest, hypo_best>>

\* worker.finish(); im1corners.get(&points1); im2corners.get(&points2);
Finish ==
    /\ UNCHANGED <<stepVars, measVars, expVars>>
    /\ At("finish")
    /\ pc' = pc + 1
    /\ UNCHANGED <<mainState, ndev, ran, id, outcomes, i, frame, stamp, hypo, scores, ibest,
                   hypo_best, calls, execs, iterTrace>>

\* for (int i = 0; i < 10; ...
LoopTest ==
    /\ UNCHANGED <<stepVars, measVars, expVars>>
    /\ At("loop")
    /\ IF i < RefineIterations
       THEN /\ pc' = pc + 1
            /\ iterTrace' = <<>>
       ELSE /\ pc' = LoopExit
            /\ UNCHANGED iterTrace
    /\ UNCHANGED <<mainState, ndev, ran, id, outcomes, i, frame, stamp, hypo, scores, ibest,
                   hypo_best, calls, execs>>

\* ... i++)
LoopEnd ==
    /\ UNCHANGED <<stepVars, measVars, expVars>>
    /\ At("endloop")
    /\ i' = i + 1
    /\ pc' = LoopHead
    /\ UNCHANGED <<mainState, ndev, ran, id, outcomes, frame, stamp, hypo, scores, ibest,
                   hypo_best, calls, execs, iterTrace>>

\* hypo_scores.get(&hyposcores): the scores the device computed.
ReadScores ==
    /\ UNCHANGED <<stepVars, measVars, expVars>>
    /\ At("read")
    /\ \E sc \in ScoreLists : scores' = sc
    /\ pc' = pc + 1
    /\ UNCHANGED <<mainState, ndev, ran, id, outcomes, i, frame, stamp, hypo, ibest,
                   hypo_best, calls, execs, iterTrace>>

\* The statistics loop, worker.finish() and hypo_best.setCount(ibest).
Select ==
    /\ UNCHANGED <<stepVars, measVars, expVars>>
    /\ At("select")
    /\ ibest' = SelectBest(scores)
    /\ hypo_best' = SelectBest(scores)
    /\ stamp' = [stamp EXCEPT !["hypo_best"] = frame]
    /\ pc' = pc + 1
    /\ UNCHANGED <<mainState, ndev, ran, id, outcomes, i, frame, hypo, scores, calls, execs,
                   iterTrace>>

\* Read-back of matches and test_uvs, drawing, sleep; testPipeline returns
\* and the per-device loop goes on.
Display ==
    /\ UNCHANGED <<stepVars, measVars, expVars>>
    /\ At("display")
    /\ outcomes' = Append(outcomes, "done")
    /\ id' = id + 1
    /\ mainState' = "loop"
    /\ UNCHANGED <<ndev, ran, pc, i, frame, stamp, hypo, scores, ibest, hypo_best, calls,
                   execs, iterTrace>>

PipeInit ==
    /\ mainState = "start"
    /\ ndev = 0
    /\ id = 0
    /\ outcomes = <<>>
    /\ ran = <<>>
    /\ pc = 1
    /\ i = 0
    /\ frame = 0
    /\ stamp = [b \in PBuffers |-> 0]
    /\ hypo = HypoInit
    /\ scores = <<>>
    /\ ibest = 0
    /\ hypo_best = 0
    /\ calls = [s \in PSteps |-> 0]
    /\ execs = [s \in PSteps |-> 0]
    /\ iterTrace = <<>>
    /\ mbuf = MeasIdle
    /\ mpre = MeasIdle
    /\ mop = NoOp
    /\ mops = 0
    /\ cap = [b \in Buffers |-> MaxPoints]
    /\ count = [b \in Buffers |-> 0]
    /\ queue = <<>>
    /\ running = NoKernel
    /\ completed = <<>>
    /\ nenq = 0
    /\ last = NoExec
    /\ elog = <<>>
    /\ ethrown = "none"

PipeNext ==
    \/ main_Discover
    \/ main_RunDevice
    \/ main_DeviceInfoFails
    \/ main_Return
    \/ ThrowClError
    \/ ThrowExpectationError
    \/ Construct
    \/ HostWriteImage
    \/ Measure
    \/ Finish
    \/ LoopTest
    \/ LoopEnd
    \/ ReadScores
    \/ Select
    \/ Display

PipeSpec == PipeInit /\ [][PipeNext]_vars


StepInit ==
    /\ cap \in [Buffers -> Caps]
    /\ count = [b \in Buffers |-> 0]
    /\ queue = <<>>
    /\ running = NoKernel
    /\ completed = <<>>
    /\ nenq = 0
    /\ last = NoExec
    /\ mainState = "start"
    /\ ndev = 0
    /\ id = 0
    /\ outcomes = <<>>
    /\ ran = <<>>
    /\ pc = 1
    /\ i = 0
    /\ frame = 0
    /\ stamp = [b \in PBuffers |-> 0]
    /\ hypo = HypoInit
    /\ scores = <<>>
    /\ ibest = 0
    /\ hypo_best = 0
    /\ calls = [s \in PSteps |-> 0]
    /\ execs = [s \in PSteps |-> 0]
    /\ iterTrace = <<>>
    /\ mbuf = MeasIdle
    /\ mpre = MeasIdle
    /\ mop = NoOp
    /\ mops = 0
    /\ elog = <<>>
    /\ ethrown = "none"

StepSpec == StepInit /\ [][StepNext]_vars

(* ------------------------------------------------------------------ *)
(* measure() against execute(): the buffer-state mutations of a call,  *)
(* compared once the queue has drained.                                *)
(* ------------------------------------------------------------------ *)

MSteps == {"HipsGrayStep", "HipsRichStep", "MatMulStep"}

\* HipsGrayStep::execute() on the buffer-states b.
GrayEffect(b) == [b EXCEPT !.o_hips = np_64(b.i_points)]

RichEffect_Append(b) == [b EXCEPT !.ohips = b.ohips + b.i_points]

\* HipsRichStep::execute() on the buffer-states b.
RichEffect(b) == [b EXCEPT !.ohips = b.i_points]

\* MatMulStep::execute() on the buffer-states b: hypo_m = hypo_cam * hypo_m.
MulEffect(b) == [b EXCEPT !.m = <<b.cam>> \o b.m]

\* One execute() of step s.
StepEffect(s, b) ==
    CASE s = "HipsGrayStep" -> GrayEffect(b)
      [] s = "HipsRichStep" -> RichEffect(b)
      [] s = "MatMulStep"   -> MulEffect(b)

RECURSIVE WorkerStep_measure(_, _, _)
\* WorkerStep::measure(repeat): finish, repeat execute() calls, finish.
WorkerStep_measure(s, b, repeat) ==
    IF repeat = 0 THEN b ELSE WorkerStep_measure(s, StepEffect(s, b), repeat - 1)

\* step.execute(); worker.finish();
CallExecute ==
    /\ UNCHANGED <<stepVars, pipeVars, expVars>>
    /\ mops < MaxOps
    /\ \E s \in MSteps :
          /\ mbuf' = StepEffect(s, mbuf)
          /\ mop' = [kind |-> "execute", step |-> s, repeat |-> 1]
    /\ mpre' = mbuf
    /\ mops' = mops + 1

\* step.measure() with the default repeat count, or step.measure(1).
CallMeasure ==
    /\ UNCHANGED <<stepVars, pipeVars, expVars>>
    /\ mops < MaxOps
    /\ \E s \in MSteps, r \in {1, DefaultRepeat} :
          /\ mbuf' = WorkerStep_measure(s, mbuf, r)
          /\ mop' = [kind |-> "measure", step |-> s, repeat |-> r]
    /\ mpre' = mbuf
    /\ mops' = mops + 1

MeasInit ==
    /\ mbuf \in {[MeasIdle EXCEPT !.i_points = n, !.o_hips = g, !.ohips = g, !.cam = c] :
                    n \in PointChoices, g \in {0, TileSize}, c \in 1..2}
    /\ mpre = mbuf
    /\ mop = NoOp
    /\ mops = 0
    /\ cap = [b \in Buffers |-> MaxPoints]
    /\ count = [b \in Buffers |-> 0]
    /\ queue = <<>>
    /\ running = NoKernel
    /\ completed = <<>>
    /\ nenq = 0
    /\ last = NoExec
    /\ mainState = "start"
    /\ ndev = 0
    /\ id = 0
    /\ outcomes = <<>>
    /\ ran = <<>>
    /\ pc = 1
    /\ i = 0
    /\ frame = 0
    /\ stamp = [b \in PBuffers |-> 0]
    /\ hypo = HypoInit
    /\ scores = <<>>
    /\ ibest = 0
    /\ hypo_best = 0
    /\ calls = [s \in PSteps |-> 0]
    /\ execs = [s \in PSteps |-> 0]
    /\ iterTrace = <<>>
    /\ elog = <<>>
    /\ ethrown = "none"

MeasNext ==
    \/ CallExecute
    \/ CallMeasure

MeasureSpec == MeasInit /\ [][MeasNext]_vars

(* ------------------------------------------------------------------ *)
(* ExpectSpec: a caller of expect() and cutry().                       *)
(* ------------------------------------------------------------------ *)

\* The record of one call: the function, its argument and how it ended.
Called(fn, arg, outcome) == [fn |-> fn, arg |-> arg, outcome |-> outcome]

\* What leaves the call: the exception thrown, or nothing on a normal return.
Propagates(outcome) == IF outcome = "ok" THEN "none" ELSE outcome

\* expect(message, state) called with either value of state.
Call_expect ==
    /\ UNCHANGED <<stepVars, pipeVars, measVars>>
    /\ ethrown = "none"
    /\ Len(elog) < MaxChecks
    /\ \E state \in BOOLEAN :
          /\ elog' = Append(elog, Called("expect", state, expect(state)))
          /\ ethrown' = Propagates(expect(state))

\* cutry(error) called with any cudaError_t value.
Call_cutry ==
    /\ UNCHANGED <<stepVars, pipeVars, measVars>>
    /\ ethrown = "none"
    /\ Len(elog) < MaxChecks
    /\ \E error \in CudaErrors :
          /\ elog' = Append(elog, Called("cutry", error, cutry(error)))
          /\ ethrown' = Propagates(cutry(error))

\* The caller's handler takes the exception; the caller goes on.
HandleExpectation ==
    /\ UNCHANGED <<stepVars, pipeVars, measVars>>
    /\ ethrown # "none"
    /\ ethrown' = "none"
    /\ elog' = elog

ExpectInit ==
    /\ elog = <<>>
    /\ ethrown = "none"
    /\ cap = [b \in Buffers |-> MaxPoints]
    /\ count = [b \in Buffers |-> 0]
    /\ queue = <<>>
    /\ running = NoKernel
    /\ completed = <<>>
    /\ nenq = 0
    /\ last = NoExec
    /\ mainState = "start"
    /\ ndev = 0
    /\ id = 0
    /\ outcomes = <<>>
    /\ ran = <<>>
    /\ pc = 1
    /\ i = 0
    /\ frame = 0
    /\ stamp = [b \in PBuffers |-> 0]
    /\ hypo = HypoInit
    /\ scores = <<>>
    /\ ibest = 0
    /\ hypo_best = 0
    /\ calls = [s \in PSteps |-> 0]
    /\ execs = [s \in PSteps |-> 0]
    /\ iterTrace = <<>>
    /\ mbuf = MeasIdle
    /\ mpre = MeasIdle
    /\ mop = NoOp
    /\ mops = 0

ExpectNext ==
    \/ Call_expect
    \/ Call_cutry
    \/ HandleExpectation

ExpectSpec == ExpectInit /\ [][ExpectNext]_vars

(* ================================================================== *)
(* Properties.                                                         *)
(* ================================================================== *)

\* The output buffer-state of a step.
OutOf(s) == IF s = "HipsGrayStep" THEN "o_hips" ELSE "ohips"

C2_GrayRoundsDown ==
    last.step = "HipsGrayStep" =>
        LET n == count["o_hips"]
            np == last.np
        IN  /\ n % TileSize = 0
            /\ n <= np
            /\ np - n = np % TileSize
            /\ np - n < TileSize
            /\ (np < TileSize => n = 0)

\* HipsGrayStep has executed on 127 points and kept one tile, dropping 63.
C2_Witness ==
    /\ last.step = "HipsGrayStep"
    /\ last.np = 2 * TileSize - 1
    /\ count["o_hips"] = TileSize

\* C3: an error of either kind thrown inside testPipeline for one device
\* aborts only that device's run: main's per-device loop goes on (or
\* returns after the last device), it is never left by the exception.
C3_ErrorAbortsOnlyThatDevice ==
    \A k \in 1..Len(outcomes) :
        outcomes[k] \in {"cl::Error", "ExpectationError"} =>
            /\ mainState # "terminated"
            /\ id >= k

\* C4: whenever execute() has left the output count equal to n, the kernel
\* filling those n elements was enqueued by that execute().
C4_CountAuthoritative ==
    (last.step # "none" /\ count[OutOf(last.step)] > 0) =>
        last.gsize = count[OutOf(last.step)]

C6_OverwritesCount ==
    /\ last.step = "HipsGrayStep" =>
           count["o_hips"] = TileSize * (last.np \div TileSize)
    /\ last.step = "HipsRichStep" => count["ohips"] = last.np

\* A second execution of HipsRichStep found a larger, stale count and
\* replaced it by the smaller current one.
C6_Witness ==
    /\ last.step = "HipsRichStep"
    /\ last.stale > last.np
    /\ last.np > 0
    /\ count["ohips"] = last.np

C9_InputsProducedEarlier ==
    At("measure") =>
        \A b \in StepIn(Stmt.step) :
            /\ stamp[b] # 0
            /\ (b \in PerFrame => stamp[b] = frame)

\* The depth filter of image 2 is about to read the scratch list that the
\* culling step of image 2 has rewritten.
C9_Witness ==
    /\ At("measure")
    /\ Stmt.step = "runClip2"
    /\ frame = 2
    /\ stamp["corners1"] = 2

\* linearize, solve, update, compose.
RefineOrder == <<"runWls", "runCholesky", "runSe3Exp", "runMul">>

RECURSIVE Countdown(_)
\* <<n, n - 1, ..., 1>>: n increments composed onto the identity, newest first.
Countdown(n) == IF n = 0 THEN <<>> ELSE <<n>> \o Countdown(n - 1)

\* C10: the pose matrix is set to identity once before the refinement, the
\* refinement runs 10 iterations of linearize, solve, update, compose in
\* that order with compose applied exactly once per iteration, and scoring
\* runs only after the last iteration.
C10_RefinementLoop ==
    (mainState = "pipeline" /\ pc > 1) =>
        LET composed == i + (IF InLoop(pc) /\ Len(iterTrace) = Len(RefineOrder)
                             THEN 1 ELSE 0)
        IN  /\ calls["runIdent"] = (IF pc > IdentPos THEN 1 ELSE 0)
            /\ i <= RefineIterations
            /\ (pc >= LoopExit => i = RefineIterations)
            /\ (InLoop(pc) => /\ i < RefineIterations
                              /\ Len(iterTrace) <= Len(RefineOrder)
                              /\ iterTrace = SubSeq(RefineOrder, 1, Len(iterTrace)))
            /\ execs["runMul"] = (IF pc > LoopHead THEN composed ELSE i)
            /\ calls["runMul"] = execs["runMul"]
            /\ \A s \in {"runWls", "runCholesky", "runSe3Exp"} :
                   pc >= LoopExit => calls[s] = RefineIterations
            /\ (pc > IdentPos => hypo.m = Countdown(execs["runMul"]))
            /\ (calls["runSe3Score"] > 0 =>
                   /\ i = RefineIterations
                   /\ hypo.m = Countdown(RefineIterations)
                   /\ calls["runSe3Score"] = 1)

\* Scoring is about to run on a pose composed of 10 increments.
C10_Witness ==
    /\ At("measure")
    /\ Stmt.step = "runSe3Score"
    /\ i = RefineIterations
    /\ Len(hypo.m) = RefineIterations
    /\ calls["runIdent"] = 1

C12_RaisesIffConditionFails ==
    /\ \A k \in 1..Len(elog) :
          /\ elog[k].outcome \in {"ok", "ExpectationError"}
          /\ elog[k].fn = "expect" =>
                (elog[k].outcome = "ExpectationError" <=> elog[k].arg = FALSE)
          /\ elog[k].fn = "cutry" =>
                (elog[k].outcome = "ExpectationError" <=> elog[k].arg # cudaSuccess)
    /\ ethrown \in {"none", "ExpectationError"}
    /\ ethrown = "ExpectationError" =>
          /\ Len(elog) > 0
          /\ elog[Len(elog)].outcome = "ExpectationError"
    /\ (Len(elog) > 0 /\ elog[Len(elog)].outcome = "ok") => ethrown = "none"

\* All four cases have happened: expect(true) and cutry(cudaSuccess)
\* returned, expect(false) and cutry(failure) raised, the last one still
\* propagating.
C12_Witness ==
    /\ Len(elog) = 4
    /\ elog[1] = Called("expect", TRUE, "ok")
    /\ elog[2] = Called("cutry", cudaSuccess, "ok")
    /\ elog[3] = Called("expect", FALSE, "ExpectationError")
    /\ elog[4] = Called("cutry", "cudaErrorUnknown", "ExpectationError")
    /\ ethrown = "ExpectationError"

\* C13: HipsRichStep.execute() sets the output count to exactly the input
\* count np it read, for every np >= 0 and without rounding to tiles, and
\* the kernel it enqueues has global size np.
C13_RichCountIsNp ==
    last.step = "HipsRichStep" =>
        /\ last.np >= 0
        /\ last.set = last.np
        /\ count["ohips"] = last.set
        /\ last.gsize # -1 => last.gsize = last.np

\* HipsRichStep has executed on 65 points, one more than a tile: the output
\* count and the global size of the enqueued kernel are both 65.
C13_Witness ==
    /\ last.step = "HipsRichStep"
    /\ last.np = TileSize + 1
    /\ count["ohips"] = TileSize + 1
    /\ last.gsize = TileSize + 1

\* C14: testPipeline is called for every discovered device exactly once, in
\* discovery order and without retry: the calls made so far are devices
\* 0, 1, 2, ... and, once main is over, there are devices.size() of them;
\* when no device run failed with anything but a backend error, main is
\* over only by returning 0 after the last device.
C14_EveryDeviceRunOnce ==
    /\ Len(ran) <= ndev
    /\ \A k \in 1..Len(ran) : ran[k] = k - 1
    /\ mainState \in {"returned", "terminated"} =>
           /\ Len(ran) = ndev
           /\ (\A k \in 1..Len(outcomes) : outcomes[k] \in {"done", "cl::Error"}) =>
                  /\ mainState = "returned"
                  /\ Len(outcomes) = ndev

\* C15: after HipsGrayStep or HipsRichStep has executed, the count of its
\* descriptor list is at most the count of the point list it read, so every
\* descriptor index is also an index of a point; only trailing points are
\* left without a descriptor.
C15_DescriptorsWithinPoints ==
    last.step \in Steps =>
        LET nd == count[OutOf(last.step)]
        IN  /\ nd = last.set
            /\ nd <= last.np
            /\ \A idx \in 0..(nd - 1) : idx < last.np
            /\ count["i_points"] = last.np => nd <= count["i_points"]

\* HipsGrayStep has executed on 65 points: 64 descriptors, the last point
\* has none.
C15_Witness ==
    /\ last.step = "HipsGrayStep"
    /\ count["i_points"] = TileSize + 1
    /\ last.np = TileSize + 1
    /\ count["o_hips"] = TileSize

\* The lists written by the image-1 chain of testPipeline are not written
\* again while or after the image-2 chain runs.
Image1ListsKept ==
    (mainState = "pipeline" /\ frame = 2) =>
        /\ stamp["im1corners"] = 1
        /\ stamp["im1hips"] = 1

====
